---- MODULE Spec2Model ----
(***************************************************************************)
(* A model of pdf2jpeg: the input resolver (find_pdf_files), the page      *)
(* converter (pdf_first_page_to_jpg), the batch orchestrator               *)
(* (process_pdfs_bulk), the command line entry point (main) and the HTTP   *)
(* upload handler (upload_files).                                          *)
(*                                                                         *)
(* A Python string is a sequence of one-character strings, so that         *)
(* suffixes, case folding, digit tests, glob matching and the order used   *)
(* by sorted() are computed character by character.  None is the empty     *)
(* sequence; no argument of the model is the empty string.                 *)
(***************************************************************************)
EXTENDS Integers, Sequences, FiniteSets, TLC

\* ------------------------------------------------------------------------
\* Python strings
\* ------------------------------------------------------------------------

None == <<>>

\* ord(c) for the characters that occur in the model (ASCII).
Ord(c) ==
  CASE c = "*" -> 42 [] c = "." -> 46 [] c = "/" -> 47
    [] c = "0" -> 48 [] c = "1" -> 49 [] c = "2" -> 50 [] c = "3" -> 51
    [] c = "4" -> 52 [] c = "5" -> 53 [] c = "6" -> 54 [] c = "7" -> 55
    [] c = "8" -> 56 [] c = "9" -> 57 [] c = ":" -> 58 [] c = "?" -> 63
    [] c = "A" -> 65 [] c = "C" -> 67 [] c = "D" -> 68 [] c = "E" -> 69
    [] c = "F" -> 70 [] c = "G" -> 71 [] c = "J" -> 74 [] c = "P" -> 80
    [] c = "U" -> 85 [] c = "\\" -> 92 [] c = "_" -> 95
    [] c = "a" -> 97 [] c = "b" -> 98 [] c = "c" -> 99 [] c = "d" -> 100
    [] c = "e" -> 101 [] c = "f" -> 102 [] c = "g" -> 103 [] c = "i" -> 105
    [] c = "j" -> 106 [] c = "l" -> 108 [] c = "m" -> 109 [] c = "n" -> 110
    [] c = "o" -> 111 [] c = "p" -> 112 [] c = "r" -> 114 [] c = "s" -> 115
    [] c = "t" -> 116 [] c = "u" -> 117 [] c = "w" -> 119 [] c = "x" -> 120
    [] c = "z" -> 122

\* str.lower() on one character.
LowerChar(c) ==
  CASE c = "A" -> "a" [] c = "C" -> "c" [] c = "D" -> "d" [] c = "E" -> "e"
    [] c = "F" -> "f" [] c = "G" -> "g" [] c = "J" -> "j" [] c = "P" -> "p"
    [] c = "U" -> "u" [] OTHER -> c

Lower(s) == [k \in 1..Len(s) |-> LowerChar(s[k])]

\* Python's < on strings: by code point, a proper prefix first.
RECURSIVE StrLess(_, _)
StrLess(a, b) ==
  IF b = <<>> THEN FALSE
  ELSE IF a = <<>> THEN TRUE
  ELSE IF Head(a) = Head(b) THEN StrLess(Tail(a), Tail(b))
  ELSE Ord(Head(a)) < Ord(Head(b))

Digits == {"0", "1", "2", "3", "4", "5", "6", "7", "8", "9"}

\* str.isdigit(): non-empty and every character a digit.
IsDigit(s) == s # <<>> /\ \A k \in 1..Len(s) : s[k] \in Digits

\* int(s) for a string of digits.
RECURSIVE Int_(_, _)
Int_(s, acc) ==
  IF s = <<>> THEN acc ELSE Int_(Tail(s), 10 * acc + (Ord(Head(s)) - Ord("0")))

IntOf(s) == Int_(s, 0)

EndsWith(s, c) == s # <<>> /\ s[Len(s)] = c

Contains(s, c) == \E k \in 1..Len(s) : s[k] = c

\* The last index of c in s, 0 when absent (str.rfind, one-based).
RFind(s, c) ==
  LET hits == {k \in 1..Len(s) : s[k] = c}
  IN IF hits = {} THEN 0 ELSE CHOOSE k \in hits : \A h \in hits : h <= k

\* s.split("/"): the components between slashes, empty ones included.
RECURSIVE Split(_, _, _)
Split(s, cur, acc) ==
  IF s = <<>> THEN Append(acc, cur)
  ELSE IF Head(s) = "/" THEN Split(Tail(s), <<>>, Append(acc, cur))
  ELSE Split(Tail(s), Append(cur, Head(s)), acc)

\* "/".join(parts)
RECURSIVE Join(_)
Join(parts) ==
  IF parts = <<>> THEN <<>>
  ELSE IF Len(parts) = 1 THEN parts[1]
  ELSE parts[1] \o <<"/">> \o Join(Tail(parts))

\* ------------------------------------------------------------------------
\* pathlib.Path on a POSIX system, for relative paths
\* ------------------------------------------------------------------------

\* Path(s).parts: empty and "." components are dropped, ".." is kept.
Parts(s) == SelectSeq(Split(s, <<>>, <<>>), LAMBDA p : p # <<>> /\ p # <<".">>)

\* str(Path(s))
PathStr(s) == IF Parts(s) = <<>> THEN <<".">> ELSE Join(Parts(s))

\* Path(s).name
Name(s) == IF Parts(s) = <<>> THEN <<>> ELSE Parts(s)[Len(Parts(s))]

\* Path(s).suffix: from the last dot of the name, unless that dot is the
\* first or the last character of the name.
Suffix(s) ==
  LET n == Name(s)
      i == RFind(n, ".")
  IN IF 1 < i /\ i < Len(n) THEN SubSeq(n, i, Len(n)) ELSE <<>>

\* Path(s).stem
Stem(s) ==
  LET n == Name(s)
      i == RFind(n, ".")
  IN IF 1 < i /\ i < Len(n) THEN SubSeq(n, 1, i - 1) ELSE n

\* Path(s).parent
Parent(s) ==
  IF Len(Parts(s)) <= 1 THEN <<".">>
  ELSE Join(SubSeq(Parts(s), 1, Len(Parts(s)) - 1))

\* Path(a) / b
PathJoin(a, b) == PathStr(a \o <<"/">> \o b)

\* ------------------------------------------------------------------------
\* The file system the program runs against (relative to the working
\* directory): the variable fs.  Each entry is the list of its components,
\* its kind and, for a file, what the rasterizer makes of it.  InitialFS is
\* the tree the runs start from.
\* ------------------------------------------------------------------------

VARIABLE fs

InitialFS ==
  { [at |-> << <<"d">> >>,                               kind |-> "dir",  body |-> "none"],
    [at |-> << <<"d">>, <<"a",".","p","d","f">> >>,      kind |-> "file", body |-> "pdf"],
    [at |-> << <<"d">>, <<"a",".","P","D","F">> >>,      kind |-> "file", body |-> "pdf"],
    [at |-> << <<"d">>, <<"n",".","t","x","t">> >>,      kind |-> "file", body |-> "text"],
    [at |-> << <<"d">>, <<"s">> >>,                      kind |-> "dir",  body |-> "none"],
    [at |-> << <<"d">>, <<"s">>, <<"a",".","p","d","f">> >>, kind |-> "file", body |-> "corrupt"],
    [at |-> << <<"z",".","p","d","f">> >>,               kind |-> "file", body |-> "nopages"] }

Entry(at) == CHOOSE e \in fs : e.at = at

IsEntry(at) == \E e \in fs : e.at = at

\* The entry a path names: components are followed from the working
\* directory, ".." steps back out of a directory that exists.  <<"?">> stands
\* for a path that names nothing.
Nowhere == << <<"?">> >>

RECURSIVE Walk(_, _)
Walk(parts, at) ==
  IF at = Nowhere THEN Nowhere
  ELSE IF parts = <<>> THEN at
  ELSE IF at # <<>> /\ (~IsEntry(at) \/ Entry(at).kind # "dir") THEN Nowhere
  ELSE IF Head(parts) = <<".", ".">>
    THEN IF at = <<>> THEN Nowhere ELSE Walk(Tail(parts), SubSeq(at, 1, Len(at) - 1))
  ELSE Walk(Tail(parts), Append(at, Head(parts)))

Locate(s) ==
  LET at == Walk(Parts(s), <<>>)
  IN IF at = <<>> \/ IsEntry(at) THEN at ELSE Nowhere

\* Path(s).exists(), .is_file(), .is_dir()
Exists(s) == Locate(s) # Nowhere

IsFile(s) == Locate(s) # Nowhere /\ Locate(s) # <<>> /\ Entry(Locate(s)).kind = "file"

IsDir(s) == Locate(s) # Nowhere /\ (Locate(s) = <<>> \/ Entry(Locate(s)).kind = "dir")

\* fnmatch.fnmatchcase(name, pat) with * and ?.
RECURSIVE FnMatch(_, _)
FnMatch(n, p) ==
  IF p = <<>> THEN n = <<>>
  ELSE IF Head(p) = "*"
    THEN FnMatch(n, Tail(p)) \/ (n # <<>> /\ FnMatch(Tail(n), p))
  ELSE n # <<>> /\ (Head(p) = "?" \/ Head(p) = Head(n)) /\ FnMatch(Tail(n), Tail(p))

\* Path(s).rglob(pat): every entry below the directory whose name matches,
\* spelled as the directory's path followed by the entry's relative path.
RGlob(s, pat) ==
  LET root == Locate(s)
      below == {e \in fs : Len(e.at) > Len(root)
                           /\ SubSeq(e.at, 1, Len(root)) = root
                           /\ FnMatch(e.at[Len(e.at)], pat)}
  IN {PathJoin(s, Join(SubSeq(e.at, Len(root) + 1, Len(e.at)))) : e \in below}

\* glob.glob(pattern), not recursive: every entry whose components match the
\* pattern's components one by one, whatever its kind.
Glob(pattern) ==
  LET pp == Split(pattern, <<>>, <<>>)
      hit == {e \in fs : Len(e.at) = Len(pp)
                         /\ \A k \in 1..Len(pp) : FnMatch(e.at[k], pp[k])}
  IN {Join(e.at) : e \in hit}

\* ------------------------------------------------------------------------
\* find_pdf_files
\* ------------------------------------------------------------------------

DotPdf == <<".", "p", "d", "f">>

\* Some listing of a finite set of strings (directory listings and set
\* iteration come in no particular order).
RECURSIVE ListOf(_)
ListOf(S) ==
  IF S = {} THEN <<>>
  ELSE LET x == CHOOSE y \in S : \A z \in S : z = y \/ StrLess(z, y)
       IN <<x>> \o ListOf(S \ {x})

Range(q) == {q[k] : k \in 1..Len(q)}

\* sorted(xs): ascending in Python's string order.
RECURSIVE Sorted(_)
Sorted(S) ==
  IF S = {} THEN <<>>
  ELSE LET x == CHOOSE y \in S : \A z \in S : z = y \/ StrLess(y, z)
       IN <<x>> \o Sorted(S \ {x})

\* A variant that returns the collected list as it is.
SortedSetKeepList(pdf_files) == pdf_files

\* sorted(list(set(pdf_files)))
SortedSet(pdf_files) == Sorted(Range(pdf_files))

\* What one input path adds to pdf_files (the body of the for loop).
FoundFor(input_path) ==
  LET path == PathStr(input_path)
  IN IF IsFile(path) /\ Lower(Suffix(path)) = DotPdf
       THEN <<path>>
     ELSE IF IsDir(path)
       THEN ListOf(RGlob(path, <<"*", ".", "p", "d", "f">>))
            \o ListOf(RGlob(path, <<"*", ".", "P", "D", "F">>))
     ELSE IF Contains(path, "*") \/ Contains(path, "?")
       THEN ListOf(Glob(path))
     ELSE <<>>

RECURSIVE Gather(_)
Gather(input_paths) ==
  IF input_paths = <<>> THEN <<>>
  ELSE FoundFor(Head(input_paths)) \o Gather(Tail(input_paths))

find_pdf_files(input_paths) == SortedSet(Gather(input_paths))

\* ------------------------------------------------------------------------
\* State
\* ------------------------------------------------------------------------

VARIABLES
  entry,          \* what was called: "cli" (main), "web" (upload_files),
                  \* "bulk" (process_pdfs_bulk), "convert" (pdf_first_page_to_jpg)
  pc,             \* where the calling thread stands
  argv,           \* sys.argv[1:]
  files,          \* request.files.getlist('files'), None when the key is absent
  form,           \* request.form
  input_paths, output_dir, dpi, quality, max_workers, scale_factor,
  pdf_files,      \* the resolved paths
  tasks,          \* the conversions called so far, in submission order
  results, successful, failed,
  summary,        \* what process_pdfs_bulk returned
  exit_code,      \* the process's exit status, -1 while it runs
  uploaded_files, \* upload_files: the saved uploads
  response,       \* upload_files: the HTTP status returned, 0 before
  faults          \* how many faults the environment has injected

vars == <<fs, entry, pc, argv, files, form, input_paths, output_dir, dpi, quality,
          max_workers, scale_factor, pdf_files, tasks, results, successful,
          failed, summary, exit_code, uploaded_files, response, faults>>

\* ------------------------------------------------------------------------
\* pdf_first_page_to_jpg
\* ------------------------------------------------------------------------

\* What a call hands back: a returned triple, or an exception that left it.
Returned(success, pdf_path, detail) ==
  [kind |-> "return", val |-> <<success, pdf_path, detail>>]

Raised(e) == [kind |-> "raise", val |-> <<FALSE, <<>>, e>>]

NoResult == [kind |-> "none", val |-> <<FALSE, <<>>, <<>>>>]

\* A variant without the except clause: the exception leaves the function.
OnExceptionPropagate(pdf_path, e) == Raised(e)

\* except Exception as e: return False, str(pdf_path), str(e)
OnException(pdf_path, e) == Returned(FALSE, pdf_path, e)

\* The directory the JPEG goes to.
OutputDir(pdf_path, out_dir) ==
  IF out_dir = None THEN Parent(pdf_path) ELSE PathStr(out_dir)

\* output_dir / f"{pdf_path.stem}.jpg"
OutputPath(pdf_path, out_dir) ==
  PathJoin(OutputDir(pdf_path, out_dir), Stem(pdf_path) \o <<".", "j", "p", "g">>)

\* The directories output_dir.mkdir(parents=True, exist_ok=True) creates.
MkdirAdds(out_dir) ==
  LET pp == Parts(out_dir)
  IN {[at |-> SubSeq(pp, 1, k), kind |-> "dir", body |-> "none"] :
        k \in {j \in 1..Len(pp) : ~IsEntry(SubSeq(pp, 1, j))}}

\* mkdir fails when a component of the path is a file.
MkdirBlocked(out_dir) ==
  LET pp == Parts(out_dir)
  IN \E k \in 1..Len(pp) :
       IsEntry(SubSeq(pp, 1, k)) /\ Entry(SubSeq(pp, 1, k)).kind = "file"

\* What the rasterizer makes of the file.
Body(pdf_path) ==
  IF IsFile(pdf_path) THEN Entry(Locate(pdf_path)).body ELSE "none"

\* The environment injects at most MaxFaults faults (a failing mkdir, resize
\* or write) into one run.
MaxFaults == 1

CanInject(fault) == fault = "none" \/ faults < MaxFaults

\* The call up to the point where the JPEG is opened for writing: the result
\* it ends with, or NoResult when it goes on to write.
Prepare(p, out_dir, fault) ==
  IF ~Exists(p) THEN Returned(FALSE, p, <<"File not found: ">> \o p)
  ELSE IF Lower(Suffix(p)) # DotPdf THEN Returned(FALSE, p, <<"Not a PDF file">>)
  ELSE IF out_dir # None /\ (MkdirBlocked(out_dir) \/ fault = "mkdir")
    THEN OnException(p, <<"mkdir failed">>)
  ELSE IF Body(p) \notin {"pdf", "nopages"}
    THEN OnException(p, <<"Unable to get page count">>)
  ELSE IF Body(p) = "nopages" THEN Returned(FALSE, p, <<"No pages found in PDF">>)
  ELSE IF fault = "resize" THEN OnException(p, <<"resize failed">>)
  ELSE NoResult

NewTask(pdf_file, st) == [pdf |-> pdf_file, st |-> st, res |-> NoResult, got |-> FALSE]

Running == {i \in 1..Len(tasks) : tasks[i].st \in {"running", "writing"}}

\* Lines 48-88 of one running call: validation, output directory, rendering,
\* resizing; it ends with a result or opens the JPEG for writing.
ConvBegin(i) ==
  /\ i \in 1..Len(tasks)
  /\ tasks[i].st = "running"
  /\ \E fault \in {"none", "mkdir", "resize"} :
       LET p == PathStr(tasks[i].pdf)
           r == Prepare(p, output_dir, fault)
           made == IF Exists(p) /\ Lower(Suffix(p)) = DotPdf /\ output_dir # None
                      /\ ~MkdirBlocked(output_dir) /\ fault # "mkdir"
                   THEN MkdirAdds(output_dir) ELSE {}
       IN /\ CanInject(fault)
          /\ faults' = IF fault = "none" THEN faults ELSE faults + 1
          /\ fs' = fs \cup made
          /\ tasks' = [tasks EXCEPT ![i] =
                         IF r = NoResult THEN [@ EXCEPT !.st = "writing"]
                         ELSE [@ EXCEPT !.st = "done", !.res = r]]
  /\ UNCHANGED <<entry, pc, argv, files, form, input_paths, output_dir, dpi, quality,
                 max_workers, scale_factor, pdf_files, results, successful, failed,
                 summary, exit_code, uploaded_files, response>>

\* Where a file of path s would be created: in the directory its parent
\* names; Nowhere when that is no directory or s names a directory.
CreateAt(s) ==
  LET pp == Parts(s)
      dir == Walk(SubSeq(pp, 1, Len(pp) - 1), <<>>)
      at == Append(dir, pp[Len(pp)])
  IN IF dir = Nowhere \/ (dir # <<>> /\ (~IsEntry(dir) \/ Entry(dir).kind # "dir"))
       THEN Nowhere
     ELSE IF IsEntry(at) /\ Entry(at).kind = "dir" THEN Nowhere
     ELSE at

\* Line 90 and the return: the JPEG is written, or the write fails.
ConvSave(i) ==
  /\ i \in 1..Len(tasks)
  /\ tasks[i].st = "writing"
  /\ \E fault \in {"none", "save"} :
       LET p == PathStr(tasks[i].pdf)
           out == OutputPath(p, output_dir)
           jpeg == [at |-> CreateAt(out), kind |-> "file", body |-> "jpeg"]
       IN /\ CanInject(fault)
          /\ faults' = IF fault = "none" THEN faults ELSE faults + 1
          /\ IF fault = "save" \/ jpeg.at = Nowhere
             THEN /\ fs' = fs
                  /\ tasks' = [tasks EXCEPT ![i] =
                       [@ EXCEPT !.st = "done", !.res = OnException(p, <<"write failed">>)]]
             ELSE /\ fs' = {e \in fs : e.at # jpeg.at} \cup {jpeg}
                  /\ tasks' = [tasks EXCEPT ![i] =
                       [@ EXCEPT !.st = "done", !.res = Returned(TRUE, p, out)]]
  /\ UNCHANGED <<entry, pc, argv, files, form, input_paths, output_dir, dpi, quality,
                 max_workers, scale_factor, pdf_files, results, successful, failed,
                 summary, exit_code, uploaded_files, response>>

\* ------------------------------------------------------------------------
\* process_pdfs_bulk
\* ------------------------------------------------------------------------

NoSummary == [total |-> -1, successful |-> -1, failed |-> -1, results |-> <<>>]

\* Lines 140-155: resolve the inputs; nothing found returns the zero summary.
BulkResolve ==
  /\ pc = "bulk"
  /\ pdf_files' = find_pdf_files(input_paths)
  /\ IF pdf_files' = <<>>
       THEN /\ summary' = [total |-> 0, successful |-> 0, failed |-> 0, results |-> <<>>]
            /\ pc' = "returned"
       ELSE /\ summary' = summary
            /\ pc' = "submit"
  /\ UNCHANGED <<faults, fs, entry, argv, files, form, input_paths, output_dir, dpi, quality,
                 max_workers, scale_factor, tasks, results, successful, failed,
                 exit_code, uploaded_files, response>>

\* Lines 160-163: executor.submit for the next resolved path.
Submit ==
  /\ pc = "submit"
  /\ tasks' = Append(tasks, NewTask(pdf_files[Len(tasks) + 1], "queued"))
  /\ pc' = IF Len(tasks') = Len(pdf_files) THEN "collect" ELSE "submit"
  /\ UNCHANGED <<faults, fs, entry, argv, files, form, input_paths, output_dir, dpi, quality,
                 max_workers, scale_factor, pdf_files, results, successful, failed,
                 summary, exit_code, uploaded_files, response>>

\* A pool without the worker limit.
CanStartUnbounded(running, workers) == TRUE

\* ThreadPoolExecutor(max_workers): a queued call starts only while fewer than
\* max_workers calls run.
CanStart(running, workers) == running < workers

\* A worker thread takes the oldest queued call.
Start(i) ==
  /\ entry \in {"cli", "bulk"}
  /\ i \in 1..Len(tasks)
  /\ tasks[i].st = "queued"
  /\ \A j \in 1..(i - 1) : tasks[j].st # "queued"
  /\ CanStart(Cardinality(Running), max_workers)
  /\ tasks' = [tasks EXCEPT ![i].st = "running"]
  /\ UNCHANGED <<faults, fs, entry, pc, argv, files, form, input_paths, output_dir, dpi, quality,
                 max_workers, scale_factor, pdf_files, results, successful, failed,
                 summary, exit_code, uploaded_files, response>>

\* A tally that counts every outcome as a success.
TallyAllSuccessful(counts, success) == <<counts[1] + 1, counts[2]>>

\* Lines 170-175: <<successful, failed>> after one more outcome.
Tally(counts, success) ==
  IF success THEN <<counts[1] + 1, counts[2]>> ELSE <<counts[1], counts[2] + 1>>

\* Lines 166-175: as_completed yields a finished call that was not yielded
\* yet; its outcome is recorded.  An exception held by the future is raised
\* by future.result() and leaves process_pdfs_bulk.
Collect(i) ==
  /\ pc = "collect"
  /\ i \in 1..Len(tasks)
  /\ tasks[i].st = "done"
  /\ ~tasks[i].got
  /\ tasks' = [tasks EXCEPT ![i].got = TRUE]
  /\ IF tasks[i].res.kind = "raise"
       THEN /\ pc' = "crashed"
            /\ UNCHANGED <<faults, results, successful, failed>>
       ELSE /\ pc' = pc
            /\ results' = Append(results, tasks[i].res.val)
            /\ successful' = Tally(<<successful, failed>>, tasks[i].res.val[1])[1]
            /\ failed' = Tally(<<successful, failed>>, tasks[i].res.val[1])[2]
  /\ UNCHANGED <<faults, fs, entry, argv, files, form, input_paths, output_dir, dpi, quality,
                 max_workers, scale_factor, pdf_files, summary, exit_code,
                 uploaded_files, response>>

\* A loop that is left after the first outcome.
DoneCollectingEarly(n_results, n_futures) == n_results >= 1

\* The for loop over as_completed ends when every future was yielded.
DoneCollecting(n_results, n_futures) == n_results = n_futures

\* Lines 177-194: the summary.
BulkReturn ==
  /\ pc = "collect"
  /\ DoneCollecting(Len(results), Len(pdf_files))
  /\ summary' = [total |-> Len(pdf_files), successful |-> successful,
                 failed |-> failed, results |-> results]
  /\ pc' = "returned"
  /\ UNCHANGED <<faults, fs, entry, argv, files, form, input_paths, output_dir, dpi, quality,
                 max_workers, scale_factor, pdf_files, tasks, results, successful,
                 failed, exit_code, uploaded_files, response>>

\* A direct call of pdf_first_page_to_jpg comes back to its caller.
CallReturn ==
  /\ pc = "call"
  /\ tasks[1].st = "done"
  /\ tasks' = [tasks EXCEPT ![1].got = TRUE]
  /\ IF tasks[1].res.kind = "raise"
       THEN pc' = "crashed" /\ results' = results
       ELSE pc' = "returned" /\ results' = <<tasks[1].res.val>>
  /\ UNCHANGED <<faults, fs, entry, argv, files, form, input_paths, output_dir, dpi, quality,
                 max_workers, scale_factor, pdf_files, successful, failed, summary,
                 exit_code, uploaded_files, response>>

\* ------------------------------------------------------------------------
\* main
\* ------------------------------------------------------------------------

DEFAULT_PDF_INPUT ==
  <<"C", ":", "\\", "U", "s", "e", "r", "s", "\\", "P", "a", "n", "n", "\\",
    "D", "o", "w", "n", "l", "o", "a", "d", "s", "\\", "i", "d", "p", "d", "f">>

DEFAULT_JPEG_OUTPUT ==
  <<"C", ":", "\\", "U", "s", "e", "r", "s", "\\", "P", "a", "n", "n", "\\",
    "D", "o", "w", "n", "l", "o", "a", "d", "s", "\\", "J", "P", "E", "G", "s">>

Defaults ==
  [input_paths |-> <<>>, output_dir |-> None, dpi |-> 200, quality |-> 95,
   max_workers |-> 4]

\* Lines 246-255: the first numeric argument is the dpi, the next two, while
\* numeric, the quality and the workers; the loop ends there.
ParseNumbers(args, st) ==
  LET s1 == [st EXCEPT !.dpi = IntOf(args[1])]
  IN IF Len(args) >= 2 /\ IsDigit(args[2])
       THEN LET s2 == [s1 EXCEPT !.quality = IntOf(args[2])]
            IN IF Len(args) >= 3 /\ IsDigit(args[3])
                 THEN [s2 EXCEPT !.max_workers = IntOf(args[3])]
                 ELSE s2
       ELSE s1

\* Line 256: the argument is taken for the output directory.
LooksLikeOutputDir(arg) ==
  (IsDir(arg) \/ EndsWith(arg, "/") \/ EndsWith(arg, "\\")) /\ Suffix(arg) = <<>>

\* Lines 242-263: the while loop over the arguments.
RECURSIVE ParseArgs(_, _)
ParseArgs(args, st) ==
  IF args = <<>> THEN st
  ELSE IF IsDigit(Head(args)) THEN ParseNumbers(args, st)
  ELSE IF LooksLikeOutputDir(Head(args))
    THEN ParseArgs(Tail(args), [st EXCEPT !.output_dir = Head(args)])
  ELSE ParseArgs(Tail(args), [st EXCEPT !.input_paths = Append(@, Head(args))])

\* Lines 203-263: without arguments the default folders are used when the
\* default input exists, and main returns when it does not.
MainParse ==
  /\ pc = "main"
  /\ IF argv = <<>>
       THEN IF Exists(DEFAULT_PDF_INPUT)
              THEN /\ input_paths' = <<DEFAULT_PDF_INPUT>>
                   /\ output_dir' = DEFAULT_JPEG_OUTPUT
                   /\ dpi' = 200 /\ quality' = 95 /\ max_workers' = 4
                   /\ pc' = "validate"
                   /\ exit_code' = exit_code
              ELSE /\ pc' = "exit"
                   /\ exit_code' = 0
                   /\ UNCHANGED <<faults, input_paths, output_dir, dpi, quality, max_workers>>
       ELSE LET st == ParseArgs(argv, Defaults)
            IN /\ input_paths' = st.input_paths
               /\ output_dir' = st.output_dir
               /\ dpi' = st.dpi /\ quality' = st.quality
               /\ max_workers' = st.max_workers
               /\ pc' = "validate"
               /\ exit_code' = exit_code
  /\ UNCHANGED <<faults, fs, entry, argv, files, form, scale_factor, pdf_files, tasks, results,
                 successful, failed, summary, uploaded_files, response>>

\* A check that forgets the lower end.
QualityOkNoLowerEnd(q) == ~(q > 100)

\* Line 269
QualityOk(q) == ~(q < 1 \/ q > 100)

\* Line 273
WorkersOk(w) == ~(w < 1 \/ w > 16)

\* Lines 265-278: a dpi outside 72..600 only prints a warning; a bad quality
\* or worker count makes main return; otherwise process_pdfs_bulk is called
\* with scale_factor=0.6.
MainValidate ==
  /\ pc = "validate"
  /\ IF QualityOk(quality) /\ WorkersOk(max_workers)
       THEN pc' = "bulk" /\ exit_code' = exit_code /\ scale_factor' = 60
       ELSE pc' = "exit" /\ exit_code' = 0 /\ scale_factor' = scale_factor
  /\ UNCHANGED <<faults, fs, entry, argv, files, form, input_paths, output_dir, dpi, quality,
                 max_workers, pdf_files, tasks, results, successful, failed, summary,
                 uploaded_files, response>>

\* An exit status that reports failure only when nothing succeeded.
ExitStatusAllFailed(s) == IF s.failed > 0 /\ s.successful = 0 THEN 1 ELSE 0

\* Lines 280-284: sys.exit(1) when a conversion failed, else main returns.
ExitStatus(s) == IF s.failed > 0 THEN 1 ELSE 0

\* The end of main; an exception that left process_pdfs_bulk ends the
\* interpreter with status 1.
MainExit ==
  /\ entry = "cli"
  /\ pc \in {"returned", "crashed"}
  /\ exit_code' = IF pc = "crashed" THEN 1 ELSE ExitStatus(summary)
  /\ pc' = "exit"
  /\ UNCHANGED <<faults, fs, entry, argv, files, form, input_paths, output_dir, dpi, quality,
                 max_workers, scale_factor, pdf_files, tasks, results, successful,
                 failed, summary, uploaded_files, response>>

\* ------------------------------------------------------------------------
\* upload_files
\* ------------------------------------------------------------------------

UPLOAD_FOLDER == <<"u", "p", "l", "o", "a", "d", "s">>

OUTPUT_FOLDER == <<"o", "u", "t", "p", "u", "t", "s">>

\* allowed_file(filename)
allowed_file(filename) ==
  /\ Contains(filename, ".")
  /\ Lower(SubSeq(filename, RFind(filename, ".") + 1, Len(filename))) = <<"p", "d", "f">>

\* werkzeug's secure_filename, for names of letters, digits, dots and
\* slashes: a path separator becomes an underscore.
secure_filename(filename) ==
  [k \in 1..Len(filename) |-> IF filename[k] = "/" THEN "_" ELSE filename[k]]

\* int(v) accepts a string of digits here; anything else is a ValueError.
IntParses(v) == IsDigit(v)

\* float(v) accepts digits with at most one dot between them.
FloatParses(v) ==
  LET i == RFind(v, ".")
  IN IF i = 0 THEN IsDigit(v)
     ELSE IsDigit(SubSeq(v, 1, i - 1)) /\ IsDigit(SubSeq(v, i + 1, Len(v)))

\* float(v), in hundredths (two decimals are kept).
Hundredths(v) ==
  LET i == RFind(v, ".")
      frac == IF i = 0 THEN <<>> ELSE SubSeq(v, i + 1, Len(v))
      two == SubSeq(frac \o <<"0", "0">>, 1, 2)
  IN 100 * IntOf(IF i = 0 THEN v ELSE SubSeq(v, 1, i - 1)) + IntOf(two)

\* Lines 70, 72, 74
WebDpiOk(d) == 72 <= d /\ d <= 600

WebQualityOk(q) == 1 <= q /\ q <= 100

WebScaleOk(s) == 10 <= s /\ s <= 200

\* cleanup_old_files(): everything below the two folders goes.
Cleaned ==
  {e \in fs : ~(Len(e.at) > 1 /\ e.at[1] \in {UPLOAD_FOLDER, OUTPUT_FOLDER})}

\* Lines 51-75: cleanup, the checks on the upload, the parameters and their
\* ranges.  A parameter that does not parse raises into the handler's except
\* clause (500).
UploadCheck ==
  /\ pc = "upload"
  /\ fs' = Cleaned
  /\ IF files = None \/ \A k \in 1..Len(files) : files[k].filename = <<>>
       THEN /\ response' = 400 /\ pc' = "responded"
            /\ UNCHANGED <<faults, dpi, quality, scale_factor>>
     ELSE IF \/ (form.dpi # None /\ ~IntParses(form.dpi))
             \/ (form.quality # None /\ ~IntParses(form.quality))
             \/ (form.scale_factor # None /\ ~FloatParses(form.scale_factor))
       THEN /\ response' = 500 /\ pc' = "responded"
            /\ UNCHANGED <<faults, dpi, quality, scale_factor>>
     ELSE LET d == IF form.dpi = None THEN 200 ELSE IntOf(form.dpi)
              q == IF form.quality = None THEN 95 ELSE IntOf(form.quality)
              f == IF form.scale_factor = None THEN 60 ELSE Hundredths(form.scale_factor)
          IN /\ dpi' = d /\ quality' = q /\ scale_factor' = f
             /\ IF WebDpiOk(d) /\ WebQualityOk(q) /\ WebScaleOk(f)
                  THEN response' = response /\ pc' = "save"
                  ELSE response' = 400 /\ pc' = "responded"
  /\ UNCHANGED <<faults, entry, argv, files, form, input_paths, output_dir, max_workers,
                 pdf_files, tasks, results, successful, failed, summary, exit_code,
                 uploaded_files>>

\* os.path.join(UPLOAD_FOLDER, secure_filename(file.filename)) for the
\* allowed uploads, in order.
RECURSIVE SavedPaths(_)
SavedPaths(fl) ==
  IF fl = <<>> THEN <<>>
  ELSE IF Head(fl).filename # <<>> /\ allowed_file(Head(fl).filename)
    THEN <<UPLOAD_FOLDER \o <<"/">> \o secure_filename(Head(fl).filename)>>
         \o SavedPaths(Tail(fl))
  ELSE SavedPaths(Tail(fl))

\* The upload folder after file.save of each allowed upload: a later upload
\* of the same name replaces the earlier one.
RECURSIVE SaveAll(_, _)
SaveAll(fl, tree) ==
  IF fl = <<>> THEN tree
  ELSE IF Head(fl).filename # <<>> /\ allowed_file(Head(fl).filename)
    THEN LET at == <<UPLOAD_FOLDER, secure_filename(Head(fl).filename)>>
         IN SaveAll(Tail(fl), {e \in tree : e.at # at}
                              \cup {[at |-> at, kind |-> "file", body |-> Head(fl).body]})
  ELSE SaveAll(Tail(fl), tree)

\* Lines 77-91
UploadSave ==
  /\ pc = "save"
  /\ uploaded_files' = SavedPaths(files)
  /\ fs' = SaveAll(files, fs)
  /\ IF uploaded_files' = <<>>
       THEN response' = 400 /\ pc' = "responded"
       ELSE response' = response /\ pc' = "convert"
  /\ UNCHANGED <<faults, entry, argv, files, form, input_paths, output_dir, dpi, quality,
                 max_workers, scale_factor, pdf_files, tasks, results, successful,
                 failed, summary, exit_code>>

\* Lines 93-100: the next saved upload is converted, one at a time.
WebCall ==
  /\ pc = "convert"
  /\ Len(tasks) < Len(uploaded_files)
  /\ \A i \in 1..Len(tasks) : tasks[i].got
  /\ tasks' = Append(tasks, NewTask(uploaded_files[Len(tasks) + 1], "running"))
  /\ output_dir' = OUTPUT_FOLDER
  /\ UNCHANGED <<faults, fs, entry, pc, argv, files, form, input_paths, dpi, quality,
                 max_workers, scale_factor, pdf_files, results, successful, failed,
                 summary, exit_code, uploaded_files, response>>

\* Lines 102-115: the outcome is added to the results; an exception out of
\* the call would reach the handler's except clause (500).
WebResult(i) ==
  /\ pc = "convert"
  /\ i \in 1..Len(tasks)
  /\ tasks[i].st = "done"
  /\ ~tasks[i].got
  /\ tasks' = [tasks EXCEPT ![i].got = TRUE]
  /\ IF tasks[i].res.kind = "raise"
       THEN /\ response' = 500 /\ pc' = "responded"
            /\ UNCHANGED <<faults, results, successful>>
       ELSE /\ response' = response /\ pc' = pc
            /\ results' = Append(results, tasks[i].res.val)
            /\ successful' = IF tasks[i].res.val[1] THEN successful + 1 ELSE successful
  /\ UNCHANGED <<faults, fs, entry, argv, files, form, input_paths, output_dir, dpi, quality,
                 max_workers, scale_factor, pdf_files, failed, summary, exit_code,
                 uploaded_files>>

\* Lines 117-122
WebRespond ==
  /\ pc = "convert"
  /\ Len(results) = Len(uploaded_files)
  /\ response' = 200
  /\ pc' = "responded"
  /\ UNCHANGED <<faults, fs, entry, argv, files, form, input_paths, output_dir, dpi, quality,
                 max_workers, scale_factor, pdf_files, tasks, results, successful,
                 failed, summary, exit_code, uploaded_files>>

\* ------------------------------------------------------------------------
\* The runs
\* ------------------------------------------------------------------------

MaxArgs == 2

MaxWorkers == 2

MaxUploads == 2

SeqsUpTo(S, n) == UNION {[1..k -> S] : k \in 0..n}

\* Arguments that are not numbers: a directory, a file, a glob pattern, a
\* missing file, a directory to create, a PDF without pages.
PathArgs ==
  { <<"d">>,
    <<"d", "/", "a", ".", "p", "d", "f">>,
    <<"d", "/", "n", "*">>,
    <<"m", ".", "p", "d", "f">>,
    <<"o", "/">>,
    <<"z", ".", "p", "d", "f">> }

\* [dpi] [quality] [workers]
NumberArgs ==
  { <<>>,
    << <<"3", "0", "0">> >>,
    << <<"5", "0">> >>,
    << <<"3", "0", "0">>, <<"0">> >>,
    << <<"3", "0", "0">>, <<"9", "0">>, <<"2">> >>,
    << <<"3", "0", "0">>, <<"9", "0">>, <<"2", "0">> >> }

\* The paths a direct call of pdf_first_page_to_jpg is given.
PathChoices ==
  { <<"d">>,
    <<".", "/", "d", "/", "/", "a", ".", "p", "d", "f">>,
    <<"m", ".", "p", "d", "f">>,
    <<"d", "/", "n", ".", "t", "x", "t">>,
    <<"d", "/", "s", "/", ".", ".", "/", "a", ".", "p", "d", "f">>,
    <<"d", "/", "s", "/", "a", ".", "p", "d", "f">>,
    <<"z", ".", "p", "d", "f">> }

\* The input lists a direct call of process_pdfs_bulk is given: nothing, a
\* directory, a missing file and a file that is no PDF, glob patterns, a
\* file given twice and beside its directory, a file under a second
\* spelling beside the first, a PDF without pages beside a good one.
InputLists ==
  { <<>>,
    << <<"d">> >>,
    << <<"m", ".", "p", "d", "f">>, <<"d", "/", "n", ".", "t", "x", "t">> >>,
    << <<"d", "/", "*">> >>,
    << <<"*", ".", "p", "d", "f">>, <<"d", "/", "?", ".", "p", "d", "f">> >>,
    << <<".", "/", "d", "/", "/", "a", ".", "p", "d", "f">>, <<"d", "/">>,
       <<"d", "/", "a", ".", "p", "d", "f">> >>,
    << <<"d", "/", "s", "/", ".", ".", "/", "a", ".", "p", "d", "f">>,
       <<"d", "/", "a", ".", "p", "d", "f">> >>,
    << <<"z", ".", "p", "d", "f">>, <<"d", "/", "a", ".", "P", "D", "F">>,
       <<"m", ".", "p", "d", "f">> >> }

OutputDirChoices == {None, <<"o">>}

Uploads ==
  { [filename |-> <<"a", ".", "p", "d", "f">>, body |-> "pdf"],
    [filename |-> <<"b", ".", "P", "D", "F">>, body |-> "corrupt"],
    [filename |-> <<"n", ".", "t", "x", "t">>, body |-> "text"],
    [filename |-> <<>>, body |-> "none"] }

Forms ==
  [dpi : {None, <<"5", "0">>, <<"3", "0", "0">>},
   quality : {None, <<"0">>, <<"x">>},
   scale_factor : {None, <<"0", ".", "0", "5">>, <<"1", ".", "5">>, <<"3">>}]

\* The folders web_app creates when it is imported (lines 24-25), with a
\* JPEG left over from an earlier request.
WebFS ==
  InitialFS \cup
  { [at |-> <<UPLOAD_FOLDER>>, kind |-> "dir", body |-> "none"],
    [at |-> <<OUTPUT_FOLDER>>, kind |-> "dir", body |-> "none"],
    [at |-> <<OUTPUT_FOLDER, <<"a", ".", "j", "p", "g">> >>, kind |-> "file", body |-> "jpeg"] }

InitCommon ==
  /\ pdf_files = <<>> /\ results = <<>> /\ successful = 0 /\ failed = 0
  /\ summary = NoSummary /\ exit_code = -1 /\ uploaded_files = <<>> /\ response = 0
  /\ dpi = 200 /\ quality = 95 /\ scale_factor = 60 /\ faults = 0

InitCli ==
  /\ entry = "cli" /\ pc = "main" /\ fs = InitialFS
  /\ argv \in {ins \o nums : ins \in SeqsUpTo(PathArgs, MaxArgs), nums \in NumberArgs}
  /\ files = None /\ form = [dpi |-> None, quality |-> None, scale_factor |-> None]
  /\ input_paths = <<>> /\ output_dir = None /\ max_workers = 4 /\ tasks = <<>>

InitBulk ==
  /\ entry = "bulk" /\ pc = "bulk" /\ fs = InitialFS
  /\ argv = <<>>
  /\ files = None /\ form = [dpi |-> None, quality |-> None, scale_factor |-> None]
  /\ input_paths \in InputLists
  /\ output_dir \in OutputDirChoices
  /\ max_workers \in 1..MaxWorkers
  /\ tasks = <<>>

InitConvert ==
  /\ entry = "convert" /\ pc = "call" /\ fs = InitialFS
  /\ argv = <<>>
  /\ files = None /\ form = [dpi |-> None, quality |-> None, scale_factor |-> None]
  /\ input_paths = <<>> /\ max_workers = 4
  /\ output_dir \in OutputDirChoices \cup {<<"d", "/", "n", ".", "t", "x", "t">>}
  /\ \E p \in PathChoices : tasks = <<NewTask(p, "running")>>

InitWeb ==
  /\ entry = "web" /\ pc = "upload" /\ fs = WebFS
  /\ argv = <<>>
  /\ files \in SeqsUpTo(Uploads, MaxUploads)
  /\ form \in Forms
  /\ input_paths = <<>> /\ output_dir = None /\ max_workers = 4 /\ tasks = <<>>

Init == InitCommon /\ (InitCli \/ InitBulk \/ InitConvert \/ InitWeb)

Next ==
  \/ MainParse
  \/ MainValidate
  \/ MainExit
  \/ BulkResolve
  \/ Submit
  \/ \E i \in 1..Len(tasks) : Start(i)
  \/ \E i \in 1..Len(tasks) : ConvBegin(i)
  \/ \E i \in 1..Len(tasks) : ConvSave(i)
  \/ \E i \in 1..Len(tasks) : Collect(i)
  \/ BulkReturn
  \/ CallReturn
  \/ UploadCheck
  \/ UploadSave
  \/ WebCall
  \/ \E i \in 1..Len(tasks) : WebResult(i)
  \/ WebRespond

Spec == Init /\ [][Next]_vars

\* A step of some running conversion.
ConvStep == \E i \in 1..Len(tasks) : ConvBegin(i) \/ ConvSave(i)

\* A running conversion can always take its next step, so this is
\* ENABLED <<ConvStep>>_vars.
ConvPending == Running # {}

\* WF_vars(ConvStep), with ENABLED written out: every conversion terminates.
ConvFair == []<>(~ConvPending) \/ []<><<ConvStep>>_vars

\* The threads keep running: the main thread submits, collects and returns,
\* the pool's workers take queued calls, and every conversion terminates.
FairSpec ==
  /\ Spec
  /\ WF_vars(Submit)
  /\ WF_vars(\E i \in 1..Len(tasks) : Start(i))
  /\ ConvFair
  /\ WF_vars(\E i \in 1..Len(tasks) : Collect(i))
  /\ WF_vars(BulkReturn)

\* ------------------------------------------------------------------------
\* Properties
\* ------------------------------------------------------------------------

Batch == entry \in {"cli", "bulk"}

Resolved == Batch /\ (pc \in {"submit", "collect", "returned"} \/ summary # NoSummary)

BatchReturned == Batch /\ summary # NoSummary

TaskFailed(i) == tasks[i].st = "done" /\ ~tasks[i].res.val[1]

TaskSucceeded(i) == tasks[i].st = "done" /\ tasks[i].res.val[1]

\* An input that is missing, is no PDF file, or whose conversion failed.
InputInvalid(k) ==
  LET p == PathStr(input_paths[k])
  IN \/ ~IsFile(p)
     \/ Lower(Suffix(p)) # DotPdf
     \/ \E r \in Range(results) : r[2] = p /\ ~r[1]

InvalidInputs == {k \in 1..Len(input_paths) : InputInvalid(k)}

\* C1, as claimed: a batch of N inputs of which K are invalid returns
\* total = N, successful = N - K, failed = K and N results.
C1_Claimed ==
  BatchReturned =>
    /\ summary.total = Len(input_paths)
    /\ summary.failed = Cardinality(InvalidInputs)
    /\ summary.successful = Len(input_paths) - Cardinality(InvalidInputs)
    /\ Len(summary.results) = Len(input_paths)

\* C1, amended: the summary counts the resolved paths, not the inputs.  With
\* N paths resolved from the inputs, of which K conversions failed, the
\* summary has total = N, successful = N - K, failed = K and N results, one
\* per conversion.
C1_Summary ==
  BatchReturned =>
    LET N == Len(pdf_files)
        K == Cardinality({i \in 1..Len(tasks) : TaskFailed(i)})
    IN /\ summary.total = N
       /\ summary.failed = K
       /\ summary.successful = N - K
       /\ Len(summary.results) = N
       /\ \A i \in 1..Len(tasks) : tasks[i].res.val \in Range(summary.results)

\* A batch that returned with successes and failures, whose inputs are not
\* as many as the paths resolved from them.
C1_Witness ==
  /\ BatchReturned
  /\ summary.failed > 0 /\ summary.successful > 0
  /\ summary.total # Len(input_paths)

\* C2, as claimed: no two calls of a batch write the same JPEG at the same
\* time.
C2_Claimed ==
  Batch =>
    \A i, j \in 1..Len(tasks) :
      (i # j /\ tasks[i].st = "writing" /\ tasks[j].st = "writing")
        => OutputPath(PathStr(tasks[i].pdf), output_dir)
           # OutputPath(PathStr(tasks[j].pdf), output_dir)

DpiInRange == 72 <= dpi /\ dpi <= 600

QualityInRange == 1 <= quality /\ quality <= 100

ScaleInRange == 10 <= scale_factor /\ scale_factor <= 200

WorkersInRange == 1 <= max_workers /\ max_workers <= 16

\* Nothing was resolved, saved or converted.
NoWorkStarted ==
  /\ tasks = <<>> /\ pdf_files = <<>> /\ uploaded_files = <<>>
  /\ pc \notin {"bulk", "submit", "collect", "returned", "crashed", "save", "convert"}

\* No conversion has begun.
NoConversion == \A i \in 1..Len(tasks) : tasks[i].st = "queued"

\* C3, as claimed: with the dpi, the quality or the scale factor out of
\* range, neither entry point ever runs a conversion.
C3_Claimed ==
  (entry \in {"cli", "web"} /\ ~(DpiInRange /\ QualityInRange /\ ScaleInRange))
    => NoConversion

\* C3, amended: a quality outside 1..100 is rejected by both entry points
\* before any input is resolved or converted; a dpi outside 72..600 and a
\* scale factor outside 0.1..2.0 are rejected by the HTTP handler only (main
\* prints a warning for the dpi and goes on, and always passes 0.6); main
\* also rejects a worker count outside 1..16.
C3_Rejected ==
  /\ (entry \in {"cli", "web"} /\ ~QualityInRange) => NoWorkStarted
  /\ (entry = "web" /\ ~(DpiInRange /\ ScaleInRange)) => NoWorkStarted
  /\ (entry = "cli" /\ ~WorkersInRange) => NoWorkStarted
  /\ (entry = "cli" /\ ~NoWorkStarted) => scale_factor = 60

\* main has returned on a quality out of range, and the handler has answered
\* 400 on a dpi out of range.
C3_Witness ==
  \/ entry = "cli" /\ pc = "exit" /\ ~QualityInRange
  \/ entry = "web" /\ response = 400 /\ files # None /\ ~DpiInRange

\* C4: a call of pdf_first_page_to_jpg never raises: whatever fails, it ends
\* with (False, source path, reason), and it ends with (True, source path,
\* output path) only once the JPEG is written.
C4_NeverRaises ==
  /\ pc # "crashed"
  /\ \A i \in 1..Len(tasks) :
       IF tasks[i].st = "done"
         THEN /\ tasks[i].res.kind = "return"
              /\ tasks[i].res.val[2] = PathStr(tasks[i].pdf)
              /\ tasks[i].res.val[3] # <<>>
              /\ tasks[i].res.val[1] =>
                   /\ tasks[i].res.val[3] = OutputPath(PathStr(tasks[i].pdf), output_dir)
                   /\ IsFile(tasks[i].res.val[3])
                   /\ Body(tasks[i].res.val[3]) = "jpeg"
         ELSE tasks[i].res = NoResult

\* A call whose write failed has returned the failure, beside a call that
\* succeeded.
C4_Witness ==
  \E i, j \in 1..Len(tasks) :
    /\ tasks[i].st = "done" /\ tasks[i].res.val[3] = <<"write failed">>
    /\ tasks[i].res.kind = "return"
    /\ TaskSucceeded(j)

\* C5, as claimed: every path find_pdf_files returns is an existing file with
\* the suffix .pdf in any case.
C5_Claimed ==
  Resolved =>
    \A k \in 1..Len(pdf_files) :
      IsFile(pdf_files[k]) /\ Lower(Suffix(pdf_files[k])) = DotPdf

\* C6, as claimed: the list is sorted and no file is in it twice, by
\* whichever input forms it was reached.
C6_Claimed ==
  Resolved =>
    /\ \A i, j \in 1..Len(pdf_files) : i < j => StrLess(pdf_files[i], pdf_files[j])
    /\ \A i, j \in 1..Len(pdf_files) : i # j => Locate(pdf_files[i]) # Locate(pdf_files[j])

\* C6, amended: the list is sorted in string order and holds no path string
\* twice, so a file reached through two input forms under one path string is
\* in it once; two spellings of one file (d/a.pdf and d/s/../a.pdf) are both
\* kept.  Every path string the inputs yield is in the list (compared while
\* the file system is as it was when the inputs were resolved).
C6_SortedDistinct ==
  Resolved =>
    /\ \A i, j \in 1..Len(pdf_files) : i < j => StrLess(pdf_files[i], pdf_files[j])
    /\ fs = InitialFS => Range(pdf_files) = Range(Gather(input_paths))

\* A file given by name and found again in its directory is listed once.
C6_Witness ==
  /\ Resolved
  /\ \E k \in 1..Len(input_paths) : IsDir(input_paths[k])
  /\ \E k \in 1..Len(input_paths) :
       IsFile(input_paths[k])
       /\ Cardinality({i \in 1..Len(pdf_files) : pdf_files[i] = PathStr(input_paths[k])}) = 1
  /\ fs = InitialFS
  /\ Len(Gather(input_paths)) > Len(pdf_files)

\* C7: main ends with status 1 when a conversion failed, however many
\* succeeded, and with status 0 when none failed, also when nothing was
\* found.
C7_ExitStatus ==
  (entry = "cli" /\ pc = "exit") =>
    exit_code = IF \E i \in 1..Len(tasks) : TaskFailed(i) THEN 1 ELSE 0

\* main has ended with status 1 after a batch in which a conversion
\* succeeded and another failed.
C7_Witness ==
  /\ entry = "cli" /\ pc = "exit" /\ exit_code = 1
  /\ \E i, j \in 1..Len(tasks) : TaskSucceeded(i) /\ TaskFailed(j)

Parsed == entry = "cli" /\ pc \notin {"main"} /\ argv # <<>>

\* The arguments before the first number.
PathPart(args) ==
  LET nums == {k \in 1..Len(args) : IsDigit(args[k])}
  IN IF nums = {} THEN args
     ELSE SubSeq(args, 1, (CHOOSE k \in nums : \A h \in nums : k <= h) - 1)

\* C8, as claimed: the inputs of the usage text reach process_pdfs_bulk: a
\* file or a glob pattern among the arguments is an input, and a directory
\* given as the only argument is the input.
C8_Claimed ==
  Parsed =>
    /\ \A k \in 1..Len(PathPart(argv)) :
         (IsFile(argv[k]) \/ Contains(argv[k], "*")) => argv[k] \in Range(input_paths)
    /\ (Len(argv) = 1 /\ IsDir(argv[1])) => input_paths = argv

\* C9: one conversion is submitted per resolved path, in order, and at most
\* max_workers conversions run at any time.
C9_Pool ==
  Batch =>
    /\ Cardinality(Running) <= max_workers
    /\ Len(tasks) <= Len(pdf_files)
    /\ \A i \in 1..Len(tasks) : tasks[i].pdf = pdf_files[i]
    /\ pc \in {"collect", "returned"} => Len(tasks) = Len(pdf_files)

\* Every worker is busy while a conversion waits in the queue.
C9_Witness ==
  /\ Batch
  /\ Cardinality(Running) = max_workers
  /\ \E i \in 1..Len(tasks) : tasks[i].st = "queued"

Dispatched == Batch /\ pc = "collect"

\* The summary is there and holds the outcome of every conversion once.
Completed ==
  /\ BatchReturned
  /\ Len(summary.results) = Len(pdf_files)
  /\ \A i \in 1..Len(tasks) :
       /\ tasks[i].got
       /\ Cardinality({k \in 1..Len(summary.results) :
                         summary.results[k][2] = PathStr(tasks[i].pdf)}) = 1

\* C10: once dispatched, the batch runs to the end: every outcome is
\* collected exactly once, failed siblings or not, and the summary is
\* returned only after that.
C10_RunsToCompletion ==
  /\ Dispatched ~> Completed
  /\ [](BatchReturned => Completed)

\* A batch has returned whose first collected outcome was a failure and
\* whose later ones include a success.
C10_Witness ==
  /\ BatchReturned
  /\ Len(summary.results) >= 2
  /\ ~summary.results[1][1]
  /\ \E k \in 2..Len(summary.results) : summary.results[k][1]

====
